---- MODULE Spec2Model ----
(***************************************************************************)
(* Model of homeassistant/components/homematic.py: the device adapter      *)
(* (HMDevice), the hub entity (HMHub), the system variable entity          *)
(* (HMVariable) and the module's callbacks (discovery, event handler,      *)
(* virtualkey service).                                                    *)
(***************************************************************************)
EXTENDS Integers, Sequences, FiniteSets, TLC

VARIABLES
    HOMEMATIC,        \* the module global: "None" or "HMConnection"
    \* ---- HMDevice (one adapter) ----
    address,          \* self._address
    channel,          \* self._channel
    param,            \* self._state: the upper-cased param, or "None"
    data,             \* self._data: node name -> value
    hmdevice,         \* self._hmdevice: "None" or an address of devices
    connected,        \* self._connected
    available,        \* self._available
    hookRaises,       \* _init_data_struct is the base one (NotImplementedError)
    hookNodes,        \* the nodes a subclass' _init_data_struct adds
    linkpc,           \* where a running link_homematic() call stands
    subscribed,       \* channels of the device holding _hm_event_callback
    linkObs,          \* what the current / last link_homematic() call did
    observedUnreach,  \* the unreachable flag last read or pushed
    last,             \* what the last operation was and did
    \* ---- HMHub and HMVariable ----
    now,              \* the clock, in seconds
    useVariables,     \* HMHub._use_variables
    hubState,         \* HMHub._state
    store,            \* HMHub._store: names of the local HMVariable entities
    varState,         \* HMVariable._state, per local name
    sysvars,          \* the system variables on the hub: name -> value
    hubLastRun,       \* Throttle: when _update_hub_state last ran
    varLastRun,       \* Throttle: when _update_variables_state last ran
    rpcLog,           \* when each query of the hub was last sent
    lastHub,          \* what the last hub / variable operation was and did
    \* ---- the module's callbacks ----
    notif,            \* the newDevices notification under way, or the last
    lastCall,         \* the last event, virtualkey or naming call
    \* ---- threads ----
    pull,             \* a _update_variables_state call between its statements
    setter,           \* a hm_set call between its statements
    remote            \* the device's own values: node name -> value

deviceVars == <<address, channel, param, data, hmdevice, connected, available,
                hookRaises, hookNodes, linkpc, subscribed, linkObs,
                observedUnreach, last>>
hubVars == <<now, useVariables, hubState, store, varState, sysvars,
             hubLastRun, varLastRun, rpcLog, lastHub>>
handlerVars == <<notif, lastCall>>
threadVars == <<pull, setter, remote>>
vars == <<HOMEMATIC, deviceVars, hubVars, handlerVars, threadVars>>

(***************************************************************************)
(* Python values: booleans, numbers, strings and None.  True == 1 and      *)
(* False == 0 in Python, a string equals only the same string.             *)
(***************************************************************************)
PyBool(b) == [t |-> "bool", n |-> IF b THEN 1 ELSE 0, s |-> ""]
PyNum(k) == [t |-> "num", n |-> k, s |-> ""]
PyStr(x) == [t |-> "str", n |-> 0, s |-> x]
PyNone == [t |-> "none", n |-> 0, s |-> ""]

STATE_UNKNOWN == PyStr("unknown")

IsNumeric(v) == v.t \in {"bool", "num"}

\* a == b of Python
PyEq(a, b) == IF IsNumeric(a) /\ IsNumeric(b) THEN a.n = b.n ELSE a = b

\* bool(v) of Python
PyTruthy(v) ==
    CASE IsNumeric(v) -> v.n # 0
      [] v.t = "str" -> v.s # ""
      [] OTHER -> FALSE

\* str.upper() on the parameter names a configuration may carry
Upper(p) ==
    CASE p = "level" -> "LEVEL"
      [] p = "power" -> "POWER"
      [] OTHER -> p

(***************************************************************************)
(* HOMEMATIC.devices: the remote devices the hub connection knows.  A      *)
(* node's channel indicator is 'c', None or a channel number.              *)
(***************************************************************************)
EmptyMap == [n \in {} |-> "c"]

devices ==
    "DEV1" :> [class |-> "SwitchPowermeter", NAME |-> "Plug", ELEMENT |-> 2,
               SENSORNODE |-> ("POWER" :> "2"),
               BINARYNODE |-> EmptyMap,
               ATTRIBUTENODE |-> ("RSSI_DEVICE" :> "0"),
               WRITENODE |-> ("LEVEL" :> "c"),
               EVENTNODE |-> ("PRESS_SHORT" :> "c"),
               ACTIONNODE |-> ("PRESS_LONG" :> "None")] @@
    "MOT1" :> [class |-> "Motion", NAME |-> "Hall", ELEMENT |-> 1,
               SENSORNODE |-> ("ACTUAL_TEMPERATURE" :> "c" @@ "MOTION" :> "c"),
               BINARYNODE |-> ("MOTION" :> "None"),
               ATTRIBUTENODE |-> EmptyMap,
               WRITENODE |-> EmptyMap,
               EVENTNODE |-> EmptyMap,
               ACTIONNODE |-> EmptyMap] @@
    "KEY1" :> [class |-> "Remote", NAME |-> "Keys", ELEMENT |-> 2,
               SENSORNODE |-> EmptyMap,
               BINARYNODE |-> EmptyMap,
               ATTRIBUTENODE |-> EmptyMap,
               WRITENODE |-> EmptyMap,
               EVENTNODE |-> ("PRESS_SHORT" :> "c" @@ "SEQUENCE_OK" :> "c"
                              @@ "INSTALL_TEST" :> "c"),
               ACTIONNODE |-> ("PRESS_SHORT" :> "c")] @@
    "WEA1" :> [class |-> "WeatherSensor", NAME |-> "Roof", ELEMENT |-> 2,
               SENSORNODE |-> ("TEMPERATURE" :> "c" @@ "ACTUAL_HUMIDITY" :> "1"
                               @@ "WIND_SPEED" :> "1"),
               BINARYNODE |-> ("RAINING" :> "1"),
               ATTRIBUTENODE |-> EmptyMap,
               WRITENODE |-> EmptyMap,
               EVENTNODE |-> EmptyMap,
               ACTIONNODE |-> EmptyMap]

\* int(channel): the integer a channel indicator parses to
IsIntLike(c) == c \in {"0", "1", "2", "3"}
IntOf(c) ==
    CASE c = "0" -> 0
      [] c = "1" -> 1
      [] c = "2" -> 2
      [] c = "3" -> 3

(***************************************************************************)
(* HMDevice                                                                *)
(***************************************************************************)
NoOp == [op |-> "none", node |-> "", value |-> PyNone, refresh |-> 0,
         ret |-> "None"]
NoLink == [ret |-> "None", devReads |-> 0, pulls |-> 0, subs |-> 0,
           raised |-> FALSE]

\* the configurations an adapter is constructed from
AdapterAddresses == {"DEV1", "GONE"}
ConfigParams == {"None", "level"}
HookChoices == {{"LEVEL"}, {"POWER"}}
MaxChannel == 2

\* values a device reports for a node, by pull or by push
DevValues == {PyBool(FALSE), PyBool(TRUE), PyNum(1)}
EventNodes == {"RSSI_DEVICE", "LEVEL", "UNREACH"}

\* HMDevice.__init__
InitDevice ==
    /\ address \in AdapterAddresses
    /\ channel \in 1..MaxChannel
    /\ \E p \in ConfigParams : param = IF p = "None" THEN "None" ELSE Upper(p)
    /\ data = [n \in {} |-> PyNone]
    /\ hmdevice = "None"
    /\ connected = FALSE
    /\ available = FALSE
    /\ hookRaises \in BOOLEAN
    /\ hookNodes \in HookChoices
    /\ linkpc = "idle"
    /\ subscribed = {}
    /\ linkObs = NoLink
    /\ observedUnreach = "none"
    /\ last = NoOp

LinkStep == [NoOp EXCEPT !.op = "link"]

\* the except clause of link_homematic
LinkFailed(d, subs, obs) ==
    /\ connected' = FALSE
    /\ data' = d
    /\ subscribed' = subs
    /\ linkObs' = [obs EXCEPT !.raised = TRUE, !.ret = "None"]
    /\ linkpc' = "idle"
    /\ last' = LinkStep
    /\ UNCHANGED <<address, channel, param, hmdevice, available, hookRaises,
                   hookNodes, observedUnreach>>

\* variant: an adapter already linked is linked again
LinkBeginRelink ==
    /\ linkpc = "idle"
    /\ last' = LinkStep
    /\ IF HOMEMATIC = "None"
       THEN /\ linkObs' = [NoLink EXCEPT !.ret = "False"]
            /\ UNCHANGED <<hmdevice, connected, linkpc>>
       ELSE IF address \in DOMAIN devices
       THEN /\ hmdevice' = address
            /\ connected' = TRUE
            /\ linkpc' = "init"
            /\ linkObs' = [NoLink EXCEPT !.ret = "running", !.devReads = 1]
       ELSE /\ linkObs' = [NoLink EXCEPT !.devReads = 1]
            /\ UNCHANGED <<hmdevice, connected, linkpc>>
    /\ UNCHANGED <<address, channel, param, data, available, hookRaises,
                   hookNodes, subscribed, observedUnreach>>

\* variant: the hub connection is not tested for None
LinkBeginNoHubTest ==
    /\ linkpc = "idle"
    /\ last' = LinkStep
    /\ IF connected
       THEN /\ linkObs' = [NoLink EXCEPT !.ret = "True"]
            /\ UNCHANGED <<hmdevice, connected, linkpc>>
       ELSE IF address \in DOMAIN devices
       THEN /\ hmdevice' = address
            /\ connected' = TRUE
            /\ linkpc' = "init"
            /\ linkObs' = [NoLink EXCEPT !.ret = "running", !.devReads = 1]
       ELSE /\ linkObs' = [NoLink EXCEPT !.devReads = 1]
            /\ UNCHANGED <<hmdevice, connected, linkpc>>
    /\ UNCHANGED <<address, channel, param, data, available, hookRaises,
                   hookNodes, subscribed, observedUnreach>>

\* link_homematic, up to the binding of the device
LinkBegin ==
    /\ linkpc = "idle"
    /\ last' = LinkStep
    /\ IF connected
       THEN /\ linkObs' = [NoLink EXCEPT !.ret = "True"]
            /\ UNCHANGED <<hmdevice, connected, linkpc>>
       ELSE IF HOMEMATIC = "None"
       THEN /\ linkObs' = [NoLink EXCEPT !.ret = "False"]
            /\ UNCHANGED <<hmdevice, connected, linkpc>>
       ELSE IF address \in DOMAIN devices
       THEN /\ hmdevice' = address
            /\ connected' = TRUE
            /\ linkpc' = "init"
            /\ linkObs' = [NoLink EXCEPT !.ret = "running", !.devReads = 1]
       ELSE /\ linkObs' = [NoLink EXCEPT !.devReads = 1]
            /\ UNCHANGED <<hmdevice, connected, linkpc>>
    /\ UNCHANGED <<address, channel, param, data, available, hookRaises,
                   hookNodes, subscribed, observedUnreach>>

\* self._data after the loop over ATTRIBUTENODE of _init_data
AttributeInit(d, dev) ==
    [n \in DOMAIN d \cup DOMAIN dev.ATTRIBUTENODE |->
        IF n \in DOMAIN dev.ATTRIBUTENODE THEN STATE_UNKNOWN ELSE d[n]]

\* self._data after a subclass' _init_data_struct added its nodes
HookInit(d, nodes) ==
    [n \in DOMAIN d \cup nodes |-> IF n \in nodes THEN STATE_UNKNOWN ELSE d[n]]

\* _init_data; the base _init_data_struct raises NotImplementedError
LinkInitData ==
    /\ linkpc = "init"
    /\ LET d1 == AttributeInit(data, devices[hmdevice])
       IN IF hookRaises
          THEN LinkFailed(d1, subscribed, linkObs)
          ELSE /\ data' = HookInit(d1, hookNodes)
               /\ linkpc' = "load"
               /\ last' = LinkStep
               /\ UNCHANGED <<address, channel, param, hmdevice, connected,
                              available, hookRaises, hookNodes, subscribed,
                              linkObs, observedUnreach>>

\* the four metadata categories _load_data_from_hm reads
ReadCategories(dev) ==
    <<dev.ATTRIBUTENODE, dev.WRITENODE, dev.SENSORNODE, dev.BINARYNODE>>

\* the nodes _load_data_from_hm pulls: those of the cache
PullNodes(dev, d) ==
    UNION {DOMAIN ReadCategories(dev)[i] \cap DOMAIN d : i \in 1..4}

\* the number of get...Data calls of a complete _load_data_from_hm
PullCount(dev, d) ==
    Cardinality(DOMAIN dev.ATTRIBUTENODE \cap DOMAIN d)
    + Cardinality(DOMAIN dev.WRITENODE \cap DOMAIN d)
    + Cardinality(DOMAIN dev.SENSORNODE \cap DOMAIN d)
    + Cardinality(DOMAIN dev.BINARYNODE \cap DOMAIN d)

\* _load_data_from_hm: every pull returns a value or raises; a pull that
\* raises leaves the values pulled before it in the cache
LinkLoad ==
    /\ linkpc = "load"
    /\ LET dev == devices[hmdevice]
           nodes == PullNodes(dev, data)
       IN \E done \in SUBSET nodes :
          \E f \in [done -> DevValues] :
             LET d1 == [n \in DOMAIN data |->
                           IF n \in done THEN f[n] ELSE data[n]]
             IN IF done = nodes
                THEN /\ data' = d1
                     /\ linkpc' = "subscribe"
                     /\ linkObs' = [linkObs EXCEPT
                                       !.pulls = PullCount(dev, data)]
                     /\ last' = LinkStep
                     /\ UNCHANGED <<address, channel, param, hmdevice,
                                    connected, available, hookRaises,
                                    hookNodes, subscribed, observedUnreach>>
                ELSE LinkFailed(d1, subscribed,
                        [linkObs EXCEPT !.pulls = Cardinality(done) + 1])

\* the six metadata categories _subscribe_homematic_events walks
AllCategories(dev) ==
    <<dev.SENSORNODE, dev.BINARYNODE, dev.ATTRIBUTENODE, dev.WRITENODE,
      dev.EVENTNODE, dev.ACTIONNODE>>

\* the channel indicators of the cached nodes
CachedIndicators(dev, d) ==
    UNION {{AllCategories(dev)[i][n] :
               n \in DOMAIN AllCategories(dev)[i] \cap DOMAIN d} : i \in 1..6}

\* an indicator int() rejects: the handler calls _LOGGER, which raises
SubscribeRaises(dev, d) ==
    \E c \in CachedIndicators(dev, d) : c \notin {"c", "None"} /\ ~IsIntLike(c)

\* channels_to_sub of _subscribe_homematic_events
ChannelsToSub(dev, d, chan) ==
    {chan : ind \in {i \in CachedIndicators(dev, d) :
                        i \in {"c", "None"} /\ chan >= 0}}
    \cup {IntOf(ind) : ind \in {i \in CachedIndicators(dev, d) :
                                   IsIntLike(i) /\ IntOf(i) >= 0}}

\* _subscribe_homematic_events: a setEventCallback that raises leaves the
\* callbacks set before it in place
LinkSubscribe ==
    /\ linkpc = "subscribe"
    /\ LET dev == devices[hmdevice]
           chans == ChannelsToSub(dev, data, channel)
       IN IF SubscribeRaises(dev, data)
          THEN LinkFailed(data, subscribed, linkObs)
          ELSE \E done \in SUBSET chans :
               IF done = chans
               THEN /\ subscribed' = subscribed \cup chans
                    /\ linkpc' = "finish"
                    /\ linkObs' = [linkObs EXCEPT !.subs = Cardinality(chans)]
                    /\ last' = LinkStep
                    /\ UNCHANGED <<address, channel, param, data, hmdevice,
                                   connected, available, hookRaises,
                                   hookNodes, observedUnreach>>
               ELSE LinkFailed(data, subscribed \cup done,
                       [linkObs EXCEPT !.subs = Cardinality(done) + 1])

\* self._available = not self._hmdevice.UNREACH, and the return
LinkFinish ==
    /\ linkpc = "finish"
    /\ \E unreach \in BOOLEAN :
          /\ available' = ~unreach
          /\ observedUnreach' = IF unreach THEN "unreachable" ELSE "reachable"
    /\ linkpc' = "idle"
    /\ linkObs' = [linkObs EXCEPT !.ret = "None"]
    /\ last' = LinkStep
    /\ UNCHANGED <<address, channel, param, data, hmdevice, connected,
                   hookRaises, hookNodes, subscribed>>

\* attribute is 'UNREACH': an identity test of two strings.  Equal strings
\* are the same object or not, as the interpreter and the caller have it.
IsUnreachCases(attribute) == IF attribute = "UNREACH" THEN BOOLEAN ELSE {FALSE}

\* self._data after _hm_event_callback
EventData(d, attribute, value) ==
    IF attribute \in DOMAIN d /\ ~PyEq(d[attribute], value)
    THEN [d EXCEPT ![attribute] = value]
    ELSE d

\* have_change of _hm_event_callback
EventHaveChange(d, attribute, value, isUnreach) ==
    \/ attribute \in DOMAIN d /\ ~PyEq(d[attribute], value)
    \/ isUnreach

\* variant: an unreachable device is also unlinked
OnEventUnlink(chan, attribute, value) ==
    /\ chan \in subscribed
    /\ \E isUnreach \in IsUnreachCases(attribute) :
          /\ data' = EventData(data, attribute, value)
          /\ available' = IF isUnreach THEN PyTruthy(value) ELSE available
          /\ connected' = (connected /\ ~(isUnreach /\ PyTruthy(value)))
          /\ last' = [NoOp EXCEPT
                         !.op = "onEvent", !.node = attribute,
                         !.value = value,
                         !.refresh = IF EventHaveChange(data, attribute, value,
                                                        isUnreach)
                                     THEN 1 ELSE 0]
    /\ observedUnreach' =
          IF attribute = "UNREACH"
          THEN (IF PyTruthy(value) THEN "unreachable" ELSE "reachable")
          ELSE observedUnreach
    /\ UNCHANGED <<address, channel, param, hmdevice, hookRaises,
                   hookNodes, linkpc, subscribed, linkObs>>

\* _hm_event_callback, called by the device for a channel it was set on
OnEvent(chan, attribute, value) ==
    /\ chan \in subscribed
    /\ \E isUnreach \in IsUnreachCases(attribute) :
          /\ data' = EventData(data, attribute, value)
          /\ available' = IF isUnreach THEN PyTruthy(value) ELSE available
          /\ last' = [NoOp EXCEPT
                         !.op = "onEvent", !.node = attribute,
                         !.value = value,
                         !.refresh = IF EventHaveChange(data, attribute, value,
                                                        isUnreach)
                                     THEN 1 ELSE 0]
    /\ observedUnreach' =
          IF attribute = "UNREACH"
          THEN (IF PyTruthy(value) THEN "unreachable" ELSE "reachable")
          ELSE observedUnreach
    /\ UNCHANGED <<address, channel, param, hmdevice, connected, hookRaises,
                   hookNodes, linkpc, subscribed, linkObs>>

\* _hm_get_state
GetMainValue == IF param \in DOMAIN data THEN data[param] ELSE PyNone

\* variant: _hm_set_state without the test of the key
SetMainValueAnyKey(value) ==
    /\ data' = [n \in DOMAIN data \cup {param} |->
                   IF n = param THEN value ELSE data[n]]
    /\ last' = [NoOp EXCEPT !.op = "setMainValue", !.value = value]
    /\ UNCHANGED <<address, channel, param, hmdevice, connected, available,
                   hookRaises, hookNodes, linkpc, subscribed, linkObs,
                   observedUnreach>>

\* _hm_set_state
SetMainValue(value) ==
    /\ data' = IF param \in DOMAIN data
               THEN [data EXCEPT ![param] = value]
               ELSE data
    /\ last' = [NoOp EXCEPT !.op = "setMainValue", !.value = value]
    /\ UNCHANGED <<address, channel, param, hmdevice, connected, available,
                   hookRaises, hookNodes, linkpc, subscribed, linkObs,
                   observedUnreach>>

(***************************************************************************)
(* HMHub and HMVariable                                                    *)
(***************************************************************************)
MIN_TIME_BETWEEN_UPDATE_HUB == 300
MIN_TIME_BETWEEN_UPDATE_VAR == 60

\* the clock advances TickSeconds at a time, up to MaxNow
TickSeconds == 60
MaxNow == 360
\* getServiceMessages returns None or a list of up to MaxMsgs messages
MaxMsgs == 1

\* the local HMVariable entities, and the variables the hub holds
LocalNames == {"alarm", "level"}
HubNames == {"alarm", "level", "other"}
\* values another writer gives a variable on the hub
HubValues == {PyBool(FALSE), PyNum(1)}
\* the variables another writer deletes from the hub
DeletedNames == {"level"}
\* values the set_value service is called with
SetValues == {PyBool(TRUE), PyStr("OFF"), PyStr("2"), PyStr("abc")}

NoHubOp == [op |-> "none", name |-> "", value |-> PyNone, hubRan |-> FALSE,
            varRan |-> FALSE, msgCalls |-> 0, varCalls |-> 0,
            forwarded |-> {}, writes |-> 0, refresh |-> 0, raised |-> FALSE,
            messages |-> PyNone, returned |-> {}]

NoRpc == [msgSent |-> FALSE, msgAt |-> 0, varSent |-> FALSE, varAt |-> 0]

\* str.lower() on the strings the service is called with
Lower(x) ==
    CASE x = "OFF" -> "off"
      [] x = "ON" -> "on"
      [] OTHER -> x

\* cv.boolean: whether it accepts the value, and what it returns
BooleanAccepts(v) ==
    v.t = "str" =>
        Lower(v.s) \in {"1", "true", "yes", "on", "enable",
                        "0", "false", "no", "off", "disable"}
BooleanOf(v) ==
    IF v.t = "str"
    THEN PyBool(Lower(v.s) \in {"1", "true", "yes", "on", "enable"})
    ELSE PyBool(PyTruthy(v))

\* float(): whether it accepts the value, and what it returns
FloatAccepts(v) ==
    CASE v.t = "str" -> v.s \in {"0", "1", "2"}
      [] v.t = "none" -> FALSE
      [] OTHER -> TRUE
FloatOf(v) ==
    IF v.t = "str"
    THEN PyNum(CASE v.s = "0" -> 0 [] v.s = "1" -> 1 [] v.s = "2" -> 2)
    ELSE PyNum(v.n)

\* variant: a boolean variable is given the number of the boolean
CoerceToNumber(state, v) ==
    IF state.t = "bool" THEN PyNum(BooleanOf(v).n) ELSE FloatOf(v)

\* the conversion hm_set applies: by the type of self._state
CoerceAccepts(state, v) ==
    IF state.t = "bool" THEN BooleanAccepts(v) ELSE FloatAccepts(v)
Coerce(state, v) ==
    IF state.t = "bool" THEN BooleanOf(v) ELSE FloatOf(v)

\* Throttle: a call is let through once min_time has passed since the
\* last one that ran
ThrottleDue(lastRun, t, minTime) == t - lastRun >= minTime

\* variant: _update_hub_state throttled with the variables' interval
HubDueShortWindow ==
    ThrottleDue(hubLastRun, now, MIN_TIME_BETWEEN_UPDATE_VAR)

\* @Throttle(MIN_TIME_BETWEEN_UPDATE_HUB) on _update_hub_state
HubDue == ThrottleDue(hubLastRun, now, MIN_TIME_BETWEEN_UPDATE_HUB)

\* @Throttle(MIN_TIME_BETWEEN_UPDATE_VAR) on _update_variables_state
VarDue == ThrottleDue(varLastRun, now, MIN_TIME_BETWEEN_UPDATE_VAR)

\* variant: the state is "unknown" for an empty list too
HubStateOfFalsy(messages) ==
    IF messages = PyNone \/ messages.n = 0
    THEN STATE_UNKNOWN ELSE PyNum(messages.n)

\* self._state = STATE_UNKNOWN if state is None else len(state)
\* (a list is modelled by its length)
HubStateOf(messages) ==
    IF messages = PyNone THEN STATE_UNKNOWN ELSE PyNum(messages.n)

\* results of getServiceMessages: None, or a list
ServiceMessages == {PyNone} \cup {PyNum(k) : k \in 0..MaxMsgs}

\* variant: hm_update without the comparison
HmUpdateAlways(state, value) == [state |-> value, refresh |-> 1]

\* HMVariable.hm_update
HmUpdate(state, value) ==
    IF ~PyEq(value, state)
    THEN [state |-> value, refresh |-> 1]
    ELSE [state |-> state, refresh |-> 0]

\* the names _update_variables_state forwards to hm_update
Forwarded(variables, names) == DOMAIN variables \cap names

\* variant: the loop makes an entity for every variable the hub returns
PulledStatesAll(states, variables) ==
    [k \in DOMAIN states \cup DOMAIN variables |->
        IF k \in DOMAIN variables THEN variables[k] ELSE states[k]]

\* the variables' states after the loop of _update_variables_state
PulledStates(states, variables) ==
    [k \in DOMAIN states |->
        IF k \in DOMAIN variables
        THEN HmUpdate(states[k], variables[k]).state
        ELSE states[k]]

\* update_ha_state calls of the loop of _update_variables_state
PulledRefresh(states, variables) ==
    Cardinality({k \in DOMAIN states \cap DOMAIN variables :
                    HmUpdate(states[k], variables[k]).refresh = 1})

\* HMHub.__init__ and HMVariable.__init__: the hub's first update() runs
\* both pulls
InitHub ==
    /\ now = 0
    /\ useVariables \in BOOLEAN
    /\ store = IF useVariables THEN LocalNames ELSE {}
    /\ sysvars \in [HubNames -> HubValues]
    /\ sysvars["other"] = PyNum(1)
    /\ varState = [k \in store |-> sysvars[k]]
    /\ hubState \in IF HOMEMATIC = "None" THEN {STATE_UNKNOWN}
                    ELSE {HubStateOf(m) : m \in ServiceMessages}
    /\ hubLastRun = 0
    /\ varLastRun = 0
    /\ rpcLog = [msgSent |-> HOMEMATIC # "None", msgAt |-> 0,
                 varSent |-> (HOMEMATIC # "None" /\ useVariables), varAt |-> 0]
    /\ lastHub = NoHubOp

Tick ==
    /\ now + TickSeconds <= MaxNow
    /\ now' = now + TickSeconds
    /\ lastHub' = [NoHubOp EXCEPT !.op = "tick"]
    /\ UNCHANGED <<useVariables, hubState, store, varState, sysvars,
                   hubLastRun, varLastRun, rpcLog>>

\* another writer sets a variable on the hub
HubChange(name, value) ==
    /\ name \in DOMAIN sysvars
    /\ sysvars' = [sysvars EXCEPT ![name] = value]
    /\ lastHub' = [NoHubOp EXCEPT !.op = "hubChange"]
    /\ UNCHANGED <<now, useVariables, hubState, store, varState,
                   hubLastRun, varLastRun, rpcLog>>

\* another writer deletes a variable from the hub
HubDelete(name) ==
    /\ name \in DOMAIN sysvars
    /\ sysvars' = [k \in DOMAIN sysvars \ {name} |-> sysvars[k]]
    /\ lastHub' = [NoHubOp EXCEPT !.op = "hubDelete"]
    /\ UNCHANGED <<now, useVariables, hubState, store, varState,
                   hubLastRun, varLastRun, rpcLog>>

\* HMHub.update: _update_hub_state and _update_variables_state, each
\* behind its Throttle.  getAllSystemVariables returns the variables of the
\* hub, or None.
HubUpdate ==
    \E messages \in ServiceMessages, answered \in BOOLEAN :
       LET hubRuns == HubDue
           varRuns == VarDue
           msgCall == hubRuns /\ HOMEMATIC # "None"
           varCall == varRuns /\ HOMEMATIC # "None" /\ useVariables
           variables == IF varCall /\ answered
                        THEN sysvars ELSE [k \in {} |-> PyNone]
       IN /\ hubState' = IF msgCall THEN HubStateOf(messages) ELSE hubState
          /\ hubLastRun' = IF hubRuns THEN now ELSE hubLastRun
          /\ varState' = PulledStates(varState, variables)
          /\ varLastRun' = IF varRuns THEN now ELSE varLastRun
          /\ rpcLog' = [msgSent |-> rpcLog.msgSent \/ msgCall,
                        msgAt |-> IF msgCall THEN now ELSE rpcLog.msgAt,
                        varSent |-> rpcLog.varSent \/ varCall,
                        varAt |-> IF varCall THEN now ELSE rpcLog.varAt]
          /\ lastHub' = [NoHubOp EXCEPT
                            !.op = "update",
                            !.hubRan = hubRuns,
                            !.varRan = varRuns,
                            !.msgCalls = IF msgCall THEN 1 ELSE 0,
                            !.varCalls = IF varCall THEN 1 ELSE 0,
                            !.forwarded = Forwarded(variables, store),
                            !.messages = IF msgCall THEN messages
                                         ELSE PyNone,
                            !.returned = DOMAIN variables,
                            !.refresh = PulledRefresh(varState, variables)]
          /\ UNCHANGED <<now, useVariables, store, sysvars>>

\* HOMEMATIC.setSystemVariable(name, value): the hub holds the value under
\* the name
HubWrite(variables, name, value) ==
    [k \in DOMAIN variables \cup {name} |->
        IF k = name THEN value ELSE variables[k]]

\* variant: hm_set without the test of HOMEMATIC
HmSetNoHubTest(name, value) ==
    /\ name \in store
    /\ IF ~CoerceAccepts(varState[name], value)
       THEN /\ lastHub' = [NoHubOp EXCEPT !.op = "set", !.name = name,
                              !.value = value, !.raised = TRUE]
            /\ UNCHANGED <<sysvars, varState>>
       ELSE LET coerced == Coerce(varState[name], value)
            IN /\ sysvars' = HubWrite(sysvars, name, coerced)
               /\ varState' = [varState EXCEPT ![name] = coerced]
               /\ lastHub' = [NoHubOp EXCEPT !.op = "set", !.name = name,
                                 !.value = value, !.writes = 1, !.refresh = 1]
    /\ UNCHANGED <<now, useVariables, hubState, store, hubLastRun,
                   varLastRun, rpcLog>>

\* variant: hm_set sends the value as it came
HmSetRaw(name, value) ==
    /\ name \in store
    /\ IF HOMEMATIC = "None"
       THEN /\ lastHub' = [NoHubOp EXCEPT !.op = "set", !.name = name,
                              !.value = value]
            /\ UNCHANGED <<sysvars, varState>>
       ELSE IF ~CoerceAccepts(varState[name], value)
       THEN /\ lastHub' = [NoHubOp EXCEPT !.op = "set", !.name = name,
                              !.value = value, !.raised = TRUE]
            /\ UNCHANGED <<sysvars, varState>>
       ELSE LET coerced == Coerce(varState[name], value)
            IN /\ sysvars' = HubWrite(sysvars, name, value)
               /\ varState' = [varState EXCEPT ![name] = coerced]
               /\ lastHub' = [NoHubOp EXCEPT !.op = "set", !.name = name,
                                 !.value = value, !.writes = 1, !.refresh = 1]
    /\ UNCHANGED <<now, useVariables, hubState, store, hubLastRun,
                   varLastRun, rpcLog>>

\* HMVariable.hm_set, of the entity called name
HmSet(name, value) ==
    /\ name \in store
    /\ IF HOMEMATIC = "None"
       THEN /\ lastHub' = [NoHubOp EXCEPT !.op = "set", !.name = name,
                              !.value = value]
            /\ UNCHANGED <<sysvars, varState>>
       ELSE IF ~CoerceAccepts(varState[name], value)
       THEN /\ lastHub' = [NoHubOp EXCEPT !.op = "set", !.name = name,
                              !.value = value, !.raised = TRUE]
            /\ UNCHANGED <<sysvars, varState>>
       ELSE LET coerced == Coerce(varState[name], value)
            IN /\ sysvars' = HubWrite(sysvars, name, coerced)
               /\ varState' = [varState EXCEPT ![name] = coerced]
               /\ lastHub' = [NoHubOp EXCEPT !.op = "set", !.name = name,
                                 !.value = value, !.writes = 1, !.refresh = 1]
    /\ UNCHANGED <<now, useVariables, hubState, store, hubLastRun,
                   varLastRun, rpcLog>>

(***************************************************************************)
(* The module's callbacks: _system_callback_handler with _get_devices,     *)
(* _create_params_list and _create_ha_name, _hm_event_handler and          *)
(* _hm_service_virtualkey.  They keep no state of their own: notif and     *)
(* lastCall hold what the call under observation was given and did.        *)
(***************************************************************************)
DISCOVER_SWITCHES == "homematic.switch"
DISCOVER_LIGHTS == "homematic.light"
DISCOVER_SENSORS == "homematic.sensor"
DISCOVER_BINARY_SENSORS == "homematic.binary_sensor"
DISCOVER_COVER == "homematic.cover"
DISCOVER_CLIMATE == "homematic.climate"

EVENT_KEYPRESS == "homematic.keypress"

HM_DEVICE_TYPES ==
    DISCOVER_SWITCHES :> {"Switch", "SwitchPowermeter"} @@
    DISCOVER_LIGHTS :> {"Dimmer"} @@
    DISCOVER_SENSORS :> {"SwitchPowermeter", "Motion", "MotionV2",
                         "RemoteMotion", "ThermostatWall", "AreaThermostat",
                         "RotaryHandleSensor", "WaterSensor", "PowermeterGas",
                         "LuxSensor", "WeatherSensor", "WeatherStation"} @@
    DISCOVER_CLIMATE :> {"Thermostat", "ThermostatWall", "MAXThermostat"} @@
    DISCOVER_BINARY_SENSORS :> {"ShutterContact", "Smoke", "SmokeV2", "Motion",
                                "MotionV2", "RemoteMotion", "WeatherSensor",
                                "TiltSensor"} @@
    DISCOVER_COVER :> {"Blind"}

HM_IGNORE_DISCOVERY_NODE == {"ACTUAL_TEMPERATURE", "ACTUAL_HUMIDITY"}

HM_PRESS_EVENTS == {"PRESS_SHORT", "PRESS_LONG", "PRESS_CONT",
                    "PRESS_LONG_RELEASE"}

HM_IMPULSE_EVENTS == {"SEQUENCE_OK"}

\* the (component_name, discovery_type) pairs of _system_callback_handler,
\* in the order of its loop
DiscoveryOrder ==
    << [component |-> "switch", type |-> DISCOVER_SWITCHES],
       [component |-> "light", type |-> DISCOVER_LIGHTS],
       [component |-> "cover", type |-> DISCOVER_COVER],
       [component |-> "binary_sensor", type |-> DISCOVER_BINARY_SENSORS],
       [component |-> "sensor", type |-> DISCOVER_SENSORS],
       [component |-> "climate", type |-> DISCOVER_CLIMATE] >>

\* A device string such as "DEV1:1" is held as its pieces, <<"DEV1", ":",
\* "1">>.  str.split(":"): the fields between the colons.
RECURSIVE SplitFrom(_, _, _)
SplitFrom(rest, field, fields) ==
    IF rest = <<>> THEN Append(fields, field)
    ELSE IF Head(rest) = ":"
    THEN SplitFrom(Tail(rest), "", Append(fields, field))
    ELSE SplitFrom(Tail(rest), field \o Head(rest), fields)

Split(s) == SplitFrom(s, "", <<>>)

NoNotif == [step |-> "none", pc |-> "idle", descriptions |-> {}, keys |-> {},
            subs |-> <<>>, setups |-> <<>>, pos |-> 0, raised |-> ""]
NoCall == [op |-> "none", device |-> <<>>, addr |-> "", chan |-> 0,
           node |-> "", name |-> "", fired |-> <<>>, calls |-> <<>>,
           errors |-> 0, raised |-> "", result |-> ""]

\* the ADDRESS entries of the device descriptions a notification may carry
DescriptionAddresses ==
    { <<"DEV1">>, <<"DEV1", ":", "1">>, <<"DEV1", ":", "2">>,
      <<"MOT1", ":", "1">>, <<"KEY1", ":", "1">>, <<"WEA1", ":", "2">>,
      <<"GONE", ":", "1">> }
\* what the hub connection pushes to _hm_event_handler
RouterDevices ==
    { <<"KEY1", ":", "1">>, <<"KEY1", ":", "2">>, <<"KEY1">>,
      <<"KEY1", ":", "x">>, <<"KEY1", ":">>, <<"GONE", ":", "1">>,
      <<"MOT1", ":", "1">> }
RouterNodes == {"PRESS_SHORT", "PRESS_LONG", "SEQUENCE_OK", "INSTALL_TEST",
                "LOWBAT"}
\* what the virtualkey service is called with
ServiceAddresses == {"DEV1", "KEY1", "GONE"}
ServiceChannels == (0 - 1)..(MaxChannel + 1)
ServiceParams == {"PRESS_SHORT", "PRESS_LONG", "LEVEL"}
\* what _create_ha_name is called with
NameNames == {"Plug", "Hall"}
NameChannels == 0..(MaxChannel + 1)
NameParams == {"None", "POWER", "MOTION"}

\* variant: the channel is left out of the name of a param
CreateHaNameNoChannel(name, chan, prm) ==
    CASE chan = 1 /\ prm = "None" -> name
      [] chan > 1 /\ prm = "None" -> name \o " " \o ToString(chan)
      [] chan >= 1 /\ prm # "None" -> name \o " " \o prm
      [] OTHER -> "None"

\* _create_ha_name; "None" when no branch returns
CreateHaName(name, chan, prm) ==
    CASE chan = 1 /\ prm = "None" -> name
      [] chan > 1 /\ prm = "None" -> name \o " " \o ToString(chan)
      [] chan = 1 /\ prm # "None" -> name \o " " \o prm
      [] chan > 1 /\ prm # "None" ->
            name \o " " \o ToString(chan) \o " " \o prm
      [] OTHER -> "None"

\* variant: no default parameter for a channel without params
CreateParamsListNoDefault(hmdev, metadata, device_type) ==
    LET nodes(chan) ==
            {node \in DOMAIN metadata :
                /\ node \notin HM_IGNORE_DISCOVERY_NODE
                /\ \/ metadata[node] = "c" \/ metadata[node] = "None"
                   \/ chan = 1}
    IN [chan \in {c \in 1..hmdev.ELEMENT : nodes(c) # {}} |-> nodes(chan)]

\* variant: a node with a channel number is a param of every channel
CreateParamsListAllChannels(hmdev, metadata, device_type) ==
    LET merge == device_type \in {DISCOVER_SENSORS, DISCOVER_BINARY_SENSORS}
        nodes(chan) ==
            {node \in DOMAIN metadata :
                node \notin HM_IGNORE_DISCOVERY_NODE}
        param_chan(chan) ==
            IF nodes(chan) = {} /\ ~merge THEN {"None"} ELSE nodes(chan)
    IN [chan \in {c \in 1..hmdev.ELEMENT : param_chan(c) # {}} |->
            param_chan(chan)]

\* _create_params_list: channel -> the params of the channel ("None" is the
\* default parameter None)
CreateParamsList(hmdev, metadata, device_type) ==
    LET merge == device_type \in {DISCOVER_SENSORS, DISCOVER_BINARY_SENSORS}
        nodes(chan) ==
            {node \in DOMAIN metadata :
                /\ node \notin HM_IGNORE_DISCOVERY_NODE
                /\ \/ metadata[node] = "c" \/ metadata[node] = "None"
                   \/ chan = 1}
        param_chan(chan) ==
            IF nodes(chan) = {} /\ ~merge THEN {"None"} ELSE nodes(chan)
    IN [chan \in {c \in 1..hmdev.ELEMENT : param_chan(c) # {}} |->
            param_chan(chan)]

\* DEVICE_SCHEMA: platform "homematic", name and address strings, channel
\* an int, param a string if there is one
DEVICE_SCHEMA(device_dict) ==
    /\ device_dict.platform = "homematic"
    /\ device_dict.name # "None"
    /\ device_dict.address # "None"

\* _get_devices for one key whose device is known: the body of its loop
DeviceEntries(device_type, key) ==
    LET device == devices[key]
        metadata ==
            IF device_type = DISCOVER_SENSORS THEN device.SENSORNODE
            ELSE IF device_type = DISCOVER_BINARY_SENSORS
            THEN device.BINARYNODE
            ELSE EmptyMap
        params == CreateParamsList(device, metadata, device_type)
        dicts ==
            UNION {{[platform |-> "homematic", address |-> key,
                     name |-> CreateHaName(device.NAME, chan, prm),
                     channel |-> chan, param |-> prm] :
                        prm \in params[chan]} : chan \in DOMAIN params}
    IN IF device.class \notin HM_DEVICE_TYPES[device_type]
       THEN {}
       ELSE {d \in dicts : DEVICE_SCHEMA(d)}

\* _get_devices: HOMEMATIC.devices[key] raises KeyError for a key that is
\* not a known device
GetDevices(device_type, keys) ==
    IF \E key \in keys : key \notin DOMAIN devices
    THEN [raised |-> "KeyError", found |-> {}]
    ELSE [raised |-> "",
          found |-> UNION {DeviceEntries(device_type, key) : key \in keys}]

\* key_dict of _system_callback_handler
KeyDict(dev_descriptions) == {Split(dev)[1] : dev \in dev_descriptions}

\* variant: one setEventCallback call for each description of a device
EventCallbacksPerDescription(dev_descriptions) ==
    [dev \in {k \in KeyDict(dev_descriptions) :
                 /\ k \in DOMAIN devices
                 /\ Cardinality(DOMAIN devices[k].EVENTNODE) > 0} |->
        Cardinality({d \in dev_descriptions : Split(d)[1] = dev})]

\* the setEventCallback(callback=bound_event_callback, bequeath=True) calls
\* of _system_callback_handler: device -> number of calls
EventCallbacks(dev_descriptions) ==
    [dev \in {k \in KeyDict(dev_descriptions) :
                 /\ k \in DOMAIN devices
                 /\ Cardinality(DOMAIN devices[k].EVENTNODE) > 0} |-> 1]

\* _system_callback_handler(hass, config, 'newDevices', interface_id,
\* dev_descriptions), up to the loop over the platforms
NewDevices(dev_descriptions) ==
    /\ notif.pc \in {"idle", "done", "raised"}
    /\ notif' = [NoNotif EXCEPT
                    !.step = "newDevices",
                    !.pc = IF KeyDict(dev_descriptions) # {}
                           THEN "discover" ELSE "done",
                    !.descriptions = dev_descriptions,
                    !.keys = KeyDict(dev_descriptions),
                    !.subs = EventCallbacks(dev_descriptions),
                    !.pos = 1]
    /\ lastCall' = NoCall

\* one turn of the loop over the platforms: _get_devices, and load_platform
\* if it found devices
Discover ==
    /\ notif.pc = "discover"
    /\ LET platform == DiscoveryOrder[notif.pos]
           got == GetDevices(platform.type, notif.keys)
       IN notif' =
            IF got.raised # ""
            THEN [notif EXCEPT !.step = "discover", !.pc = "raised",
                               !.raised = got.raised]
            ELSE [notif EXCEPT
                    !.step = "discover",
                    !.pc = IF notif.pos = Len(DiscoveryOrder)
                           THEN "done" ELSE "discover",
                    !.pos = notif.pos + 1,
                    !.setups =
                        IF got.found # {}
                        THEN Append(notif.setups,
                                    [component |-> platform.component,
                                     devices |-> got.found])
                        ELSE notif.setups]
    /\ lastCall' = NoCall

\* variant: the handler does not look the attribute up in EVENTNODE
HmEventHandlerAnyNode(device, attribute) ==
    LET fields == Split(device)
        call == [NoCall EXCEPT !.op = "event", !.device = device,
                               !.node = attribute]
    IN /\ notif' = NoNotif
       /\ lastCall' =
            IF Len(fields) < 2
            THEN [call EXCEPT !.raised = "IndexError"]
            ELSE IF ~IsIntLike(fields[2])
            THEN [call EXCEPT !.errors = 1]
            ELSE IF fields[1] \notin DOMAIN devices
            THEN [call EXCEPT !.raised = "AttributeError"]
            ELSE LET hmdev == devices[fields[1]]
                     chan == IntOf(fields[2])
                 IN IF attribute \in HM_PRESS_EVENTS
                    THEN [call EXCEPT !.fired =
                            << [type |-> EVENT_KEYPRESS,
                                keys |-> {"name", "param", "channel"},
                                name |-> hmdev.NAME, param |-> attribute,
                                channel |-> chan] >>]
                    ELSE IF attribute \in HM_IMPULSE_EVENTS
                    THEN [call EXCEPT !.fired =
                            << [type |-> EVENT_KEYPRESS,
                                keys |-> {"name", "channel"},
                                name |-> hmdev.NAME, param |-> "",
                                channel |-> chan] >>]
                    ELSE call

\* _hm_event_handler(hass, device, caller, attribute, value)
HmEventHandler(device, attribute) ==
    LET fields == Split(device)
        call == [NoCall EXCEPT !.op = "event", !.device = device,
                               !.node = attribute]
    IN /\ notif' = NoNotif
       /\ lastCall' =
            IF Len(fields) < 2
            THEN [call EXCEPT !.raised = "IndexError"]
            ELSE IF ~IsIntLike(fields[2])
            THEN [call EXCEPT !.errors = 1]
            ELSE IF fields[1] \notin DOMAIN devices
            THEN [call EXCEPT !.raised = "AttributeError"]
            ELSE LET hmdev == devices[fields[1]]
                     chan == IntOf(fields[2])
                 IN IF attribute \notin DOMAIN hmdev.EVENTNODE
                    THEN call
                    ELSE IF attribute \in HM_PRESS_EVENTS
                    THEN [call EXCEPT !.fired =
                            << [type |-> EVENT_KEYPRESS,
                                keys |-> {"name", "param", "channel"},
                                name |-> hmdev.NAME, param |-> attribute,
                                channel |-> chan] >>]
                    ELSE IF attribute \in HM_IMPULSE_EVENTS
                    THEN [call EXCEPT !.fired =
                            << [type |-> EVENT_KEYPRESS,
                                keys |-> {"name", "channel"},
                                name |-> hmdev.NAME, param |-> "",
                                channel |-> chan] >>]
                    ELSE call

\* _hm_service_virtualkey(call), the call's data validated by
\* SCHEMA_SERVICE_VIRTUALKEY
HmServiceVirtualkey(addr, chan, prm) ==
    LET call == [NoCall EXCEPT !.op = "virtualkey", !.addr = addr,
                               !.chan = chan, !.node = prm]
    IN /\ notif' = NoNotif
       /\ lastCall' =
            IF addr \notin DOMAIN devices
            THEN [call EXCEPT !.errors = 1]
            ELSE IF prm \notin DOMAIN devices[addr].ACTIONNODE
            THEN [call EXCEPT !.errors = 1]
            ELSE IF chan > devices[addr].ELEMENT
            THEN [call EXCEPT !.errors = 1]
            ELSE [call EXCEPT !.calls =
                    << [param |-> prm, value |-> 1, channel |-> chan] >>]

\* a call of _create_ha_name
CallCreateHaName(name, chan, prm) ==
    /\ notif' = NoNotif
    /\ lastCall' = [NoCall EXCEPT !.op = "name", !.name = name,
                       !.chan = chan, !.node = prm,
                       !.result = CreateHaName(name, chan, prm)]

HandlersIdle ==
    /\ notif = NoNotif
    /\ lastCall = NoCall

(***************************************************************************)
(* Threads.  The platform calls hm_set from a service thread and update()  *)
(* from a polling thread, and the hub connection changes and pushes from   *)
(* its own thread; nothing in the module locks.  Here _update_variables_   *)
(* state and hm_set are taken statement by statement, and the device's     *)
(* values change while link_homematic runs.                                *)
(***************************************************************************)
NoPull == [pc |-> "idle", variables |-> <<>>, done |-> FALSE]
NoSetter == [pc |-> "idle", name |-> "", value |-> PyNone, done |-> FALSE]

\* the nodes of the device whose values change, and the values they take
RemoteNodes == {"RSSI_DEVICE", "LEVEL", "POWER"}
RemoteValues == {PyBool(FALSE), PyBool(TRUE)}

ThreadsIdle ==
    /\ pull = NoPull
    /\ setter = NoSetter
    /\ remote = <<>>

\* _update_variables_state: variables = HOMEMATIC.getAllSystemVariables()
PullQuery ==
    /\ pull.pc = "idle"
    /\ HOMEMATIC # "None" /\ useVariables
    /\ \E answered \in BOOLEAN :
          pull' = [pc |-> "got",
                   variables |-> IF answered THEN sysvars
                                 ELSE [k \in {} |-> PyNone],
                   done |-> pull.done]
    /\ lastHub' = [NoHubOp EXCEPT !.op = "pullQuery", !.varCalls = 1]
    /\ UNCHANGED <<now, useVariables, hubState, store, varState, sysvars,
                   hubLastRun, varLastRun, rpcLog, setter, remote>>

\* _update_variables_state: the loop of hm_update calls
PullForward ==
    /\ pull.pc = "got"
    /\ varState' = PulledStates(varState, pull.variables)
    /\ pull' = [NoPull EXCEPT !.done = TRUE]
    /\ lastHub' = [NoHubOp EXCEPT
                      !.op = "pullForward",
                      !.forwarded = Forwarded(pull.variables, store),
                      !.returned = DOMAIN pull.variables,
                      !.refresh = PulledRefresh(varState, pull.variables)]
    /\ UNCHANGED <<now, useVariables, hubState, store, sysvars,
                   hubLastRun, varLastRun, rpcLog, setter, remote>>

\* hm_set, up to HOMEMATIC.setSystemVariable(self._name, value)
SetSend(name, value) ==
    /\ setter.pc = "idle"
    /\ name \in store
    /\ IF HOMEMATIC = "None"
       THEN /\ lastHub' = [NoHubOp EXCEPT !.op = "set", !.name = name,
                              !.value = value]
            /\ UNCHANGED <<sysvars, setter>>
       ELSE IF ~CoerceAccepts(varState[name], value)
       THEN /\ lastHub' = [NoHubOp EXCEPT !.op = "set", !.name = name,
                              !.value = value, !.raised = TRUE]
            /\ UNCHANGED <<sysvars, setter>>
       ELSE LET coerced == Coerce(varState[name], value)
            IN /\ sysvars' = HubWrite(sysvars, name, coerced)
               /\ setter' = [pc |-> "sent", name |-> name,
                             value |-> coerced, done |-> setter.done]
               /\ lastHub' = [NoHubOp EXCEPT !.op = "set", !.name = name,
                                 !.value = value, !.writes = 1]
    /\ UNCHANGED <<now, useVariables, hubState, store, varState, hubLastRun,
                   varLastRun, rpcLog, pull, remote>>

\* hm_set: self._state = value and update_ha_state()
SetStore ==
    /\ setter.pc = "sent"
    /\ varState' = [varState EXCEPT ![setter.name] = setter.value]
    /\ setter' = [setter EXCEPT !.pc = "idle", !.done = TRUE]
    /\ lastHub' = [NoHubOp EXCEPT !.op = "setStore", !.name = setter.name,
                      !.refresh = 1]
    /\ UNCHANGED <<now, useVariables, hubState, store, sysvars, hubLastRun,
                   varLastRun, rpcLog, pull, remote>>

\* the channel a node's events come through, for the adapter's pair
NodeChannel(dev, node, chan) ==
    LET inds == UNION {{AllCategories(dev)[i][n] :
                          n \in DOMAIN AllCategories(dev)[i] \cap {node}} :
                             i \in 1..6}
    IN {IF ind \in {"c", "None"} THEN chan ELSE IntOf(ind) : ind \in inds}

\* the device changes a node's value; the hub connection calls the
\* callbacks set on the node's channel at that moment
DeviceChange(node, value) ==
    /\ address \in DOMAIN devices
    /\ remote[node] # value
    /\ remote' = [remote EXCEPT ![node] = value]
    /\ IF NodeChannel(devices[address], node, channel) \cap subscribed # {}
       THEN \E chan \in NodeChannel(devices[address], node, channel)
                           \cap subscribed :
               OnEvent(chan, node, value)
       ELSE /\ last' = [NoOp EXCEPT !.op = "deviceChange", !.node = node,
                                    !.value = value]
            /\ UNCHANGED <<address, channel, param, data, hmdevice, connected,
                           available, hookRaises, hookNodes, linkpc,
                           subscribed, linkObs, observedUnreach>>
    /\ UNCHANGED <<pull, setter>>

\* _load_data_from_hm with get...Data returning the device's values
LinkLoadRemote ==
    /\ LinkLoad
    /\ \A n \in DOMAIN data' : data'[n] = data[n] \/ data'[n] = remote[n]
    /\ UNCHANGED <<pull, setter, remote>>

(***************************************************************************)
(* The adapter's specification: one HMDevice, the hub connection's         *)
(* callbacks and the platform's calls, in any order.                       *)
(***************************************************************************)
HubIdle ==
    /\ now = 0
    /\ useVariables = FALSE
    /\ hubState = STATE_UNKNOWN
    /\ store = {}
    /\ varState = [n \in {} |-> PyNone]
    /\ sysvars = [n \in {} |-> PyNone]
    /\ hubLastRun = 0
    /\ varLastRun = 0
    /\ rpcLog = NoRpc
    /\ lastHub = NoHubOp

\* setup: HOMEMATIC = HMConnection(...)
Setup ==
    /\ HOMEMATIC = "None"
    /\ HOMEMATIC' = "HMConnection"
    /\ last' = [NoOp EXCEPT !.op = "setup"]
    /\ UNCHANGED <<address, channel, param, data, hmdevice, connected,
                   available, hookRaises, hookNodes, linkpc, subscribed,
                   linkObs, observedUnreach>>

Init ==
    /\ HOMEMATIC \in {"None", "HMConnection"}
    /\ InitDevice
    /\ HubIdle
    /\ HandlersIdle
    /\ ThreadsIdle

Next ==
    \/ Setup /\ UNCHANGED <<hubVars, handlerVars, threadVars>>
    \/ LinkBegin /\ UNCHANGED <<HOMEMATIC, hubVars, handlerVars, threadVars>>
    \/ LinkInitData /\ UNCHANGED <<HOMEMATIC, hubVars, handlerVars, threadVars>>
    \/ LinkLoad /\ UNCHANGED <<HOMEMATIC, hubVars, handlerVars, threadVars>>
    \/ LinkSubscribe /\ UNCHANGED <<HOMEMATIC, hubVars, handlerVars, threadVars>>
    \/ LinkFinish /\ UNCHANGED <<HOMEMATIC, hubVars, handlerVars, threadVars>>
    \/ \E chan \in 0..MaxChannel, attribute \in EventNodes, value \in DevValues :
          OnEvent(chan, attribute, value) /\ UNCHANGED <<HOMEMATIC, hubVars, handlerVars, threadVars>>
    \/ \E value \in DevValues :
          SetMainValue(value) /\ UNCHANGED <<HOMEMATIC, hubVars, handlerVars, threadVars>>

Spec == Init /\ [][Next]_vars


(***************************************************************************)
(* The hub's specification: one HMHub and its HMVariable entities, the     *)
(* platform's polling, the set_value service, the clock and other writers  *)
(* of the hub's variables.                                                 *)
(***************************************************************************)
DeviceIdle ==
    /\ address = "DEV1"
    /\ channel = 1
    /\ param = "None"
    /\ data = [n \in {} |-> PyNone]
    /\ hmdevice = "None"
    /\ connected = FALSE
    /\ available = FALSE
    /\ hookRaises = FALSE
    /\ hookNodes = {}
    /\ linkpc = "idle"
    /\ subscribed = {}
    /\ linkObs = NoLink
    /\ observedUnreach = "none"
    /\ last = NoOp

InitHubSpec ==
    /\ HOMEMATIC \in {"None", "HMConnection"}
    /\ DeviceIdle
    /\ InitHub
    /\ HandlersIdle
    /\ ThreadsIdle

NextHub ==
    \/ Tick /\ UNCHANGED <<HOMEMATIC, deviceVars, handlerVars, threadVars>>
    \/ HubUpdate /\ UNCHANGED <<HOMEMATIC, deviceVars, handlerVars, threadVars>>
    \/ \E name \in HubNames, value \in HubValues :
          HubChange(name, value) /\ UNCHANGED <<HOMEMATIC, deviceVars, handlerVars, threadVars>>
    \/ \E name \in DeletedNames :
          HubDelete(name) /\ UNCHANGED <<HOMEMATIC, deviceVars, handlerVars, threadVars>>
    \/ \E name \in LocalNames, value \in SetValues :
          HmSet(name, value) /\ UNCHANGED <<HOMEMATIC, deviceVars, handlerVars, threadVars>>

SpecHub == InitHubSpec /\ [][NextHub]_vars

(***************************************************************************)
(* The callbacks' specification: the hub connection is set up; it sends    *)
(* newDevices notifications and pushes events, and the virtualkey service  *)
(* is called.                                                              *)
(***************************************************************************)
InitHandlers ==
    /\ HOMEMATIC = "HMConnection"
    /\ DeviceIdle
    /\ HubIdle
    /\ HandlersIdle
    /\ ThreadsIdle

NextHandlers ==
    \/ \E dev_descriptions \in SUBSET DescriptionAddresses :
          NewDevices(dev_descriptions)
             /\ UNCHANGED <<HOMEMATIC, deviceVars, hubVars, threadVars>>
    \/ Discover /\ UNCHANGED <<HOMEMATIC, deviceVars, hubVars, threadVars>>
    \/ \E device \in RouterDevices, attribute \in RouterNodes :
          HmEventHandler(device, attribute)
             /\ UNCHANGED <<HOMEMATIC, deviceVars, hubVars, threadVars>>
    \/ \E addr \in ServiceAddresses, chan \in ServiceChannels,
          prm \in ServiceParams :
          HmServiceVirtualkey(addr, chan, prm)
             /\ UNCHANGED <<HOMEMATIC, deviceVars, hubVars, threadVars>>
    \/ \E name \in NameNames, chan \in NameChannels, prm \in NameParams :
          CallCreateHaName(name, chan, prm)
             /\ UNCHANGED <<HOMEMATIC, deviceVars, hubVars, threadVars>>

SpecHandlers == InitHandlers /\ [][NextHandlers]_vars

(***************************************************************************)
(* The set_value service and the polling of the hub's variables, each in   *)
(* its own thread: the statements of hm_set and of _update_variables_state *)
(* in any order.  No other writer changes the hub's variables.             *)
(***************************************************************************)
InitSetPull ==
    /\ HOMEMATIC \in {"None", "HMConnection"}
    /\ DeviceIdle
    /\ InitHub
    /\ HandlersIdle
    /\ ThreadsIdle

NextSetPull ==
    \/ PullQuery /\ UNCHANGED <<HOMEMATIC, deviceVars, handlerVars>>
    \/ PullForward /\ UNCHANGED <<HOMEMATIC, deviceVars, handlerVars>>
    \/ \E name \in LocalNames, value \in SetValues :
          SetSend(name, value)
             /\ UNCHANGED <<HOMEMATIC, deviceVars, handlerVars>>
    \/ SetStore /\ UNCHANGED <<HOMEMATIC, deviceVars, handlerVars>>

SpecSetPull == InitSetPull /\ [][NextSetPull]_vars

(***************************************************************************)
(* One adapter linking while its device changes values: link_homematic in  *)
(* the platform's thread, the device's changes and the events they push in *)
(* the hub connection's thread.                                            *)
(***************************************************************************)
InitLinkRace ==
    /\ HOMEMATIC = "HMConnection"
    /\ InitDevice
    /\ HubIdle
    /\ HandlersIdle
    /\ pull = NoPull
    /\ setter = NoSetter
    /\ remote \in [RemoteNodes -> RemoteValues]

NextLinkRace ==
    \/ LinkBegin /\ UNCHANGED <<HOMEMATIC, hubVars, handlerVars, threadVars>>
    \/ LinkInitData
          /\ UNCHANGED <<HOMEMATIC, hubVars, handlerVars, threadVars>>
    \/ LinkLoadRemote /\ UNCHANGED <<HOMEMATIC, hubVars, handlerVars>>
    \/ LinkSubscribe
          /\ UNCHANGED <<HOMEMATIC, hubVars, handlerVars, threadVars>>
    \/ LinkFinish /\ UNCHANGED <<HOMEMATIC, hubVars, handlerVars, threadVars>>
    \/ \E node \in RemoteNodes, value \in RemoteValues :
          DeviceChange(node, value)
             /\ UNCHANGED <<HOMEMATIC, hubVars, handlerVars>>

SpecLinkRace == InitLinkRace /\ [][NextLinkRace]_vars

(***************************************************************************)
(* Properties of the adapter                                               *)
(***************************************************************************)

\* C1: once link_homematic() has returned with the adapter linked, no
\* link_homematic(), _hm_event_callback or _hm_set_state unlinks it or
\* rebinds its device.
C1_LinkedIsMonotonic ==
    [][(linkpc = "idle" /\ connected)
          => (connected' /\ hmdevice' = hmdevice)]_vars

\* a linked adapter an unreachable-flag event has made unavailable
C1_Witness ==
    /\ linkpc = "idle"
    /\ connected
    /\ last.op = "onEvent"
    /\ last.node = "UNREACH"
    /\ last.refresh = 1
    /\ ~available

\* C2: link_homematic() on a linked adapter reads no device map, pulls no
\* value, sets no event callback, returns True and leaves the cache, the
\* bound device, the linked flag and the available flag as they were.
C2_LinkIdempotent ==
    [][(linkpc = "idle" /\ connected /\ last'.op = "link")
          => /\ UNCHANGED <<data, hmdevice, connected, available, subscribed>>
             /\ linkpc' = "idle"
             /\ linkObs' = [NoLink EXCEPT !.ret = "True"]]_vars

\* a second link_homematic() has returned on a linked adapter with a cache
C2_Witness ==
    /\ linkpc = "idle"
    /\ connected
    /\ last.op = "link"
    /\ linkObs.ret = "True"
    /\ DOMAIN data # {}
    /\ subscribed # {}

\* C3: link_homematic() on an unlinked adapter, with HOMEMATIC None or the
\* address not in HOMEMATIC.devices, returns a false result (False, None)
\* without raising; the adapter is unlinked and unavailable and its cache
\* empty afterwards, nothing is pulled and no callback is set.
C3_LinkRefused ==
    [][(/\ linkpc = "idle"
        /\ ~connected
        /\ last'.op = "link"
        /\ (HOMEMATIC = "None" \/ address \notin DOMAIN devices))
          => /\ linkpc' = "idle"
             /\ linkObs'.ret \in {"False", "None"}
             /\ ~linkObs'.raised
             /\ linkObs'.pulls = 0
             /\ linkObs'.subs = 0
             /\ ~connected'
             /\ ~available'
             /\ DOMAIN data' = {}
             /\ subscribed' = {}]_vars

\* link_homematic() has returned for an address the hub does not know
C3_Witness ==
    /\ HOMEMATIC = "HMConnection"
    /\ address \notin DOMAIN devices
    /\ last.op = "link"
    /\ linkObs.devReads = 1
    /\ linkObs.ret = "None"

\* C4: after a link_homematic() that raised inside, the adapter is unlinked
\* and unavailable, and stays so under push events until link_homematic()
\* is called again.
C4_FailedLinkStaysUnavailable ==
    (linkpc = "idle" /\ linkObs.raised) => (~connected /\ ~available)

\* C5: _hm_event_callback signals one refresh if the node is cached with
\* another value or is the unreachable flag, and otherwise signals none and
\* leaves the cache and the available flag alone; a cached node with another
\* value takes the value, and no other entry changes.
C5_EventRefresh ==
    [][last'.op = "onEvent" =>
          LET node == last'.node
              value == last'.value
              differs == node \in DOMAIN data /\ ~PyEq(data[node], value)
          IN /\ (differs \/ node = "UNREACH") => last'.refresh = 1
             /\ ~(differs \/ node = "UNREACH") =>
                   /\ last'.refresh = 0
                   /\ data' = data
                   /\ available' = available
             /\ differs =>
                   /\ DOMAIN data' = DOMAIN data
                   /\ data'[node] = value
                   /\ \A m \in DOMAIN data \ {node} : data'[m] = data[m]]_vars

\* C6: a linked adapter is available exactly if the unreachable flag it
\* last observed, at the end of link_homematic() or in an event, is false.
C6_AvailableIsNotUnreach ==
    (linkpc = "idle" /\ connected /\ observedUnreach # "none")
        => (available <=> observedUnreach = "reachable")

(***************************************************************************)
(* Properties of the hub and the variables                                 *)
(***************************************************************************)

\* C7: an update() sends each query at most once, a service-message query
\* only MIN_TIME_BETWEEN_UPDATE_HUB after the last one and a variables query
\* only MIN_TIME_BETWEEN_UPDATE_VAR after the last one, each by its own
\* clock; a pull the throttle absorbs leaves the hub's state, or the
\* variables' states, as they were.
C7_ThrottledPulls ==
    [][lastHub'.op = "update" =>
          /\ lastHub'.msgCalls <= 1
          /\ lastHub'.varCalls <= 1
          /\ (lastHub'.msgCalls = 1 /\ rpcLog.msgSent)
                => now - rpcLog.msgAt >= MIN_TIME_BETWEEN_UPDATE_HUB
          /\ (lastHub'.varCalls = 1 /\ rpcLog.varSent)
                => now - rpcLog.varAt >= MIN_TIME_BETWEEN_UPDATE_VAR
          /\ lastHub'.msgCalls = 0 => hubState' = hubState
          /\ lastHub'.varCalls = 0 => varState' = varState
          /\ sysvars' = sysvars]_vars

\* an update() whose variables pull ran while its health pull was absorbed
C7_Witness ==
    /\ lastHub.op = "update"
    /\ lastHub.varCalls = 1
    /\ lastHub.msgCalls = 0
    /\ now - rpcLog.msgAt < MIN_TIME_BETWEEN_UPDATE_HUB
    /\ rpcLog.msgSent

\* C8 as stated: with HOMEMATIC set, every hm_set(v) sends one
\* setSystemVariable with v converted to the type of the state (bool for a
\* bool, float otherwise), stores the converted value and signals one
\* refresh.
C8_SetAlwaysWrites ==
    [][(lastHub'.op = "set" /\ HOMEMATIC # "None") =>
          LET name == lastHub'.name
          IN /\ lastHub'.writes = 1
             /\ lastHub'.refresh = 1
             /\ varState'[name].t
                   = (IF varState[name].t = "bool" THEN "bool" ELSE "num")
             /\ sysvars'[name] = varState'[name]]_vars

\* C8, for the values the conversion accepts: with HOMEMATIC set, hm_set(v)
\* sends one setSystemVariable with v converted to the type of the state
\* (bool for a bool, float otherwise), stores the converted value, signals
\* one refresh and changes no other variable; hm_set(True) on False sends
\* and stores True.
C8_SetWritesCoerced ==
    [][(/\ lastHub'.op = "set"
        /\ HOMEMATIC # "None"
        /\ CoerceAccepts(varState[lastHub'.name], lastHub'.value)) =>
          LET name == lastHub'.name
              value == lastHub'.value
          IN /\ lastHub'.writes = 1
             /\ lastHub'.refresh = 1
             /\ ~lastHub'.raised
             /\ varState'[name].t
                   = (IF varState[name].t = "bool" THEN "bool" ELSE "num")
             /\ IsNumeric(value) =>
                   PyTruthy(varState'[name]) = PyTruthy(value)
             /\ (varState[name].t # "bool" /\ IsNumeric(value)) =>
                   varState'[name].n = value.n
             /\ (varState[name] = PyBool(FALSE) /\ value = PyBool(TRUE)) =>
                   varState'[name] = PyBool(TRUE)
             /\ sysvars'[name] = varState'[name]
             /\ \A k \in DOMAIN varState \ {name} : varState'[k] = varState[k]
             /\ \A k \in DOMAIN sysvars \ {name} : sysvars'[k] = sysvars[k]]_vars

\* hm_set(True) has sent True to the hub and stored it
C8_Witness ==
    /\ HOMEMATIC # "None"
    /\ lastHub.op = "set"
    /\ lastHub.value = PyBool(TRUE)
    /\ lastHub.writes = 1
    /\ varState[lastHub.name] = PyBool(TRUE)
    /\ sysvars[lastHub.name] = PyBool(TRUE)

\* C9 as stated: with HOMEMATIC None, hm_set raises to its caller, sends
\* nothing, keeps the state and signals no refresh.
C9_SetWithoutHubRaises ==
    [][(lastHub'.op = "set" /\ HOMEMATIC = "None") =>
          /\ lastHub'.raised
          /\ lastHub'.writes = 0
          /\ lastHub'.refresh = 0
          /\ varState' = varState
          /\ sysvars' = sysvars]_vars

\* C9, as the code has it: with HOMEMATIC None, hm_set returns without
\* raising, whatever the value; it sends nothing, keeps the state and
\* signals no refresh.
C9_SetWithoutHubIsSilent ==
    [][(lastHub'.op = "set" /\ HOMEMATIC = "None") =>
          /\ ~lastHub'.raised
          /\ lastHub'.writes = 0
          /\ lastHub'.refresh = 0
          /\ varState' = varState
          /\ sysvars' = sysvars]_vars

\* hm_set has been called without a hub connection, with a value the
\* variable's type would accept, while the hub holds another value
C9_Witness ==
    /\ HOMEMATIC = "None"
    /\ lastHub.op = "set"
    /\ CoerceAccepts(varState[lastHub.name], lastHub.value)
    /\ ~PyEq(Coerce(varState[lastHub.name], lastHub.value),
             varState[lastHub.name])

\* C10: hm_update(v), as the variables pull calls it, keeps the state and
\* signals nothing when v == state, and otherwise stores v and signals one
\* refresh; nothing is written to the hub.
C10_UpdateFromHub ==
    [][lastHub'.op = "update" =>
          /\ \A k \in lastHub'.forwarded :
                IF PyEq(sysvars[k], varState[k])
                THEN varState'[k] = varState[k]
                ELSE varState'[k] = sysvars[k]
          /\ lastHub'.refresh =
                Cardinality({k \in lastHub'.forwarded :
                                ~PyEq(sysvars[k], varState[k])})
          /\ lastHub'.writes = 0
          /\ sysvars' = sysvars]_vars

\* a pull has forwarded one changed value and one that compares equal to
\* the state without being the same value (1 and True)
C10_Witness ==
    /\ lastHub.op = "update"
    /\ lastHub.forwarded = LocalNames
    /\ lastHub.refresh = 1
    /\ \E k \in LocalNames : varState[k] # sysvars[k]

\* C11: a call of update() queries the hub's system variables only if
\* variable support is enabled and the hub connection exists, and then only
\* when the variable pull is executed.  Each returned value goes to
\* hm_update of the local variable of the same name; a returned name without
\* a local variable is ignored, a local variable whose name is not returned
\* keeps its state, and the set of local variables stays what it was.
C11_VariablePull ==
    [][ lastHub'.op = "update" =>
          /\ lastHub'.varCalls = 1 <=>
                (lastHub'.varRan /\ useVariables /\ HOMEMATIC # "None")
          /\ lastHub'.varCalls = 0 => lastHub'.returned = {}
          /\ lastHub'.forwarded = lastHub'.returned \cap store
          /\ store' = store
          /\ DOMAIN varState' = store
          /\ \A k \in lastHub'.forwarded :
                varState'[k] = HmUpdate(varState[k], sysvars[k]).state
          /\ \A k \in store \ lastHub'.returned :
                varState'[k] = varState[k] ]_vars

\* C11: a pull got "other", which has no local variable, did not get
\* "level", which has one, and refreshed the one local variable it got
C11_Witness ==
    /\ lastHub.op = "update"
    /\ lastHub.varCalls = 1
    /\ "other" \in lastHub.returned
    /\ "level" \in store \ lastHub.returned
    /\ lastHub.forwarded = {"alarm"}
    /\ lastHub.refresh = 1

\* C12 as stated: after an executed health pull with the hub connection
\* present, the hub's state is "unknown" if getServiceMessages returned None
\* or an empty list, and the number of messages otherwise.
C12_EmptyIsUnknown ==
    [][ (lastHub'.op = "update" /\ lastHub'.msgCalls = 1) =>
          hubState' = IF lastHub'.messages = PyNone
                         \/ lastHub'.messages.n = 0
                      THEN STATE_UNKNOWN
                      ELSE PyNum(lastHub'.messages.n) ]_vars

\* C12: after an executed health pull with the hub connection present, the
\* hub's state is "unknown" if getServiceMessages returned None, and the
\* length of the returned list otherwise, 0 for an empty list; the pull
\* raises nothing, it sends the query only when it is executed with the
\* connection present, and a call of update() that sends no query leaves
\* the state as it was.
C12_HealthPull ==
    [][ lastHub'.op = "update" =>
          /\ ~lastHub'.raised
          /\ lastHub'.msgCalls = 1 <=>
                (lastHub'.hubRan /\ HOMEMATIC # "None")
          /\ lastHub'.msgCalls = 1 =>
                hubState' = IF lastHub'.messages = PyNone
                            THEN STATE_UNKNOWN
                            ELSE PyNum(lastHub'.messages.n)
          /\ lastHub'.msgCalls = 0 => hubState' = hubState ]_vars

\* C12: an executed health pull got an empty list and the state is 0
C12_Witness ==
    /\ lastHub.op = "update"
    /\ lastHub.msgCalls = 1
    /\ lastHub.messages = PyNum(0)
    /\ hubState = PyNum(0)

\* C21: a link_homematic() call that succeeds binds the device, initialises
\* the cache, pulls the cached values, sets the event callbacks and only
\* then sets _available, in this order; the adapter is unavailable while a
\* link is before the end of its subscription step, no _hm_event_callback
\* runs while a link is before the end of its pull, and a linked adapter
\* pulls no value again.
C21_LinkOrder ==
    [][ /\ last'.op = "link" =>
              \/ <<linkpc, linkpc'>> \in
                    {<<"idle", "init">>, <<"init", "load">>,
                     <<"load", "subscribe">>, <<"subscribe", "finish">>,
                     <<"finish", "idle">>}
              \/ linkpc' = "idle" /\ ~connected'
              \/ linkpc = "idle" /\ linkpc' = "idle" /\ linkObs'.pulls = 0
        /\ (last'.op = "link" /\ linkpc # "finish") => available' = available
        /\ linkpc' \in {"init", "load", "subscribe"} => ~available'
        /\ last'.op = "onEvent" => linkpc \notin {"init", "load"}
        /\ (connected /\ linkpc = "idle") =>
              /\ linkpc' = "idle"
              /\ linkObs' = linkObs \/ linkObs'.pulls = 0 ]_vars

\* C22: once the adapter is linked, no _hm_event_callback and no
\* _hm_set_state adds or removes a key of the cache.  _hm_set_state(v)
\* changes only the entry of the adapter's param and changes nothing when
\* the param is not a key; _hm_get_state returns that entry, or None when
\* the key is absent.
C22_CacheKeysFixed ==
    [][ /\ (connected /\ linkpc = "idle") => DOMAIN data' = DOMAIN data
        /\ last'.op = "setMainValue" =>
              /\ DOMAIN data' = DOMAIN data
              /\ \A n \in DOMAIN data \ {param} : data'[n] = data[n]
              /\ param \in DOMAIN data =>
                    /\ data'[param] = last'.value
                    /\ GetMainValue' = last'.value
              /\ param \notin DOMAIN data =>
                    /\ data' = data
                    /\ GetMainValue' = PyNone ]_vars

\* C22: a linked adapter with the param LEVEL in its cache was set to 1
C22_Witness ==
    /\ last.op = "setMainValue"
    /\ connected /\ linkpc = "idle"
    /\ param = "LEVEL"
    /\ DOMAIN data = {"LEVEL", "RSSI_DEVICE"}
    /\ last.value = PyNum(1)
    /\ GetMainValue = PyNum(1)

\* C24: the cache entry of a channel-bound node (indicator 'c' or None) is
\* changed by a pushed event only if the event came through the adapter's
\* own channel: an event of that node delivered through another channel the
\* adapter has a callback on leaves the cache as it was and signals no
\* refresh.
C24_OwnChannelOnly ==
    [][ \A chan \in 0..MaxChannel, attribute \in EventNodes,
           value \in DevValues :
          (/\ chan # channel
           /\ hmdevice # "None"
           /\ attribute \in DOMAIN data
           /\ \E i \in 1..6 :
                 /\ attribute \in DOMAIN AllCategories(devices[hmdevice])[i]
                 /\ AllCategories(devices[hmdevice])[i][attribute]
                       \in {"c", "None"}
           /\ OnEvent(chan, attribute, value)) =>
              /\ data' = data
              /\ last'.refresh = 0 ]_vars

\* C27: when the value of a hm_set call cannot be converted to the type of
\* the variable's state (not a valid boolean for a boolean variable, not a
\* number otherwise), nothing is written to the hub, the local state is
\* unchanged and no refresh is signalled; after a hm_set that wrote, a
\* variable that held a boolean holds a boolean and any other variable
\* holds a number.
C27_CoercionKeepsType ==
    [][ lastHub'.op = "set" =>
          LET name == lastHub'.name
              wasBool == varState[name].t = "bool"
              rejected ==
                  IF wasBool
                  THEN lastHub'.value \in {PyStr("2"), PyStr("abc")}
                  ELSE lastHub'.value \in {PyStr("OFF"), PyStr("abc")}
          IN /\ rejected =>
                   /\ lastHub'.writes = 0
                   /\ lastHub'.refresh = 0
                   /\ sysvars' = sysvars
                   /\ varState' = varState
             /\ (~rejected /\ HOMEMATIC # "None") => lastHub'.writes = 1
             /\ lastHub'.writes = 1 =>
                   varState'[name].t = IF wasBool THEN "bool" ELSE "num" ]_vars

\* C27: hm_set("OFF") on a variable holding a number was rejected
C27_Witness ==
    /\ lastHub.op = "set"
    /\ lastHub.raised
    /\ lastHub.value = PyStr("OFF")
    /\ varState[lastHub.name].t = "num"

(***************************************************************************)
(* Properties of the callbacks                                             *)
(***************************************************************************)

\* C13: for a newDevices notification with at least one description, the
\* six platforms are visited in the order switch, light, cover,
\* binary_sensor, sensor, climate; load_platform is called once for a
\* platform whose devices of the notification yield entries, with exactly
\* those entries, and not at all for a platform without entries; a device
\* accepted by several platforms is in each of them.
C13_SetupPerCategory ==
    (notif.pc \in {"done", "raised"} /\ notif.keys # {}) =>
        LET known == notif.keys \cap DOMAIN devices
            entries(i) ==
                UNION {DeviceEntries(DiscoveryOrder[i].type, key) :
                          key \in known}
            requests ==
                [i \in 1..Len(DiscoveryOrder) |->
                    [component |-> DiscoveryOrder[i].component,
                     devices |-> entries(i)]]
            NonEmpty(r) == r.devices # {}
        IN notif.setups = SelectSeq(requests, NonEmpty)

\* C14: a newDevices notification calls setEventCallback, with bequeath,
\* exactly once for every distinct address before the colon of its
\* descriptions that is a known device with at least one event node, and
\* for no other; the calls are all made before the first load_platform, and
\* the loop over the platforms makes no further one.
C14_EventSubscriptions ==
    [][ /\ notif'.step = "newDevices" =>
              /\ notif'.subs =
                    [dev \in {a \in {Split(d)[1] : d \in notif'.descriptions} :
                                 /\ a \in DOMAIN devices
                                 /\ DOMAIN devices[a].EVENTNODE # {}} |-> 1]
              /\ notif'.setups = <<>>
        /\ notif'.step = "discover" =>
              /\ notif'.subs = notif.subs
              /\ notif'.descriptions = notif.descriptions ]_vars

\* C14: a notification with two descriptions of DEV1, one of KEY1 and one
\* of MOT1, which has no event node, has subscribed DEV1 and KEY1 once each
\* and has then requested platforms
C14_Witness ==
    /\ notif.pc = "done"
    /\ {<<"DEV1", ":", "1">>, <<"DEV1", ":", "2">>, <<"KEY1", ":", "1">>,
         <<"MOT1", ":", "1">>} \subseteq notif.descriptions
    /\ notif.subs = ("DEV1" :> 1 @@ "KEY1" :> 1)
    /\ Len(notif.setups) > 1

\* C15: for a device whose class a platform accepts, the platform being
\* sensor or binary_sensor, a channel without eligible node yields no entry;
\* for any other platform, every channel 1..ELEMENT yields exactly one
\* entry, with no param, so that the device yields exactly ELEMENT entries.
C15_EntriesPerChannel ==
    \A i \in 1..Len(DiscoveryOrder) :
        (notif.step # "none" /\ i < notif.pos) =>
            LET platform == DiscoveryOrder[i]
                requested ==
                    UNION {notif.setups[j].devices :
                             j \in {k \in 1..Len(notif.setups) :
                                       notif.setups[k].component =
                                          platform.component}}
            IN \A key \in notif.keys :
                 devices[key].class \in HM_DEVICE_TYPES[platform.type] =>
                    LET mine == {d \in requested : d.address = key}
                        metadata ==
                            IF platform.type = DISCOVER_SENSORS
                            THEN devices[key].SENSORNODE
                            ELSE devices[key].BINARYNODE
                        eligible(chan) ==
                            {node \in DOMAIN metadata :
                                /\ node \notin {"ACTUAL_TEMPERATURE",
                                                 "ACTUAL_HUMIDITY"}
                                /\ \/ metadata[node] \in {"c", "None"}
                                   \/ chan = 1}
                    IN IF platform.component \in {"sensor", "binary_sensor"}
                       THEN \A chan \in 1..devices[key].ELEMENT :
                               eligible(chan) = {} =>
                                  {d \in mine : d.channel = chan} = {}
                       ELSE /\ Cardinality(mine) = devices[key].ELEMENT
                            /\ \A chan \in 1..devices[key].ELEMENT :
                                  \E d \in mine : /\ d.channel = chan
                                                  /\ d.param = "None"

\* C15: DEV1, of two channels, has two switch entries and, its one sensor
\* node being of a numbered channel, a sensor entry of channel 1 only
C15_Witness ==
    /\ notif.pc = "done"
    /\ notif.keys = {"DEV1"}
    /\ Len(notif.setups) = 2
    /\ notif.setups[1].component = "switch"
    /\ Cardinality(notif.setups[1].devices) = 2
    /\ notif.setups[2].component = "sensor"
    /\ {d.channel : d \in notif.setups[2].devices} = {1}

\* C16: the entries of a device for sensor or binary_sensor are exactly
\* the pairs (channel, node) with channel in 1..ELEMENT, node in the
\* device's SENSORNODE or BINARYNODE and not in the ignore list, and the
\* node's channel indicator 'c' or None, or the channel 1; each pair has one
\* entry, named from the device's name, the channel and the node.  A Motion
\* device of one channel with {ACTUAL_TEMPERATURE: c, MOTION: c} has the one
\* sensor entry "<name> MOTION", channel 1, param MOTION.
C16_SensorEntries ==
    \A i \in 1..Len(DiscoveryOrder) :
        (/\ notif.step # "none" /\ i < notif.pos
         /\ DiscoveryOrder[i].component \in {"sensor", "binary_sensor"}) =>
            LET platform == DiscoveryOrder[i]
                requested ==
                    UNION {notif.setups[j].devices :
                             j \in {k \in 1..Len(notif.setups) :
                                       notif.setups[k].component =
                                          platform.component}}
            IN \A key \in notif.keys :
                 devices[key].class \in HM_DEVICE_TYPES[platform.type] =>
                    LET mine == {d \in requested : d.address = key}
                        metadata ==
                            IF platform.component = "sensor"
                            THEN devices[key].SENSORNODE
                            ELSE devices[key].BINARYNODE
                        pairs ==
                            {p \in (1..devices[key].ELEMENT)
                                      \X DOMAIN metadata :
                                /\ p[2] \notin {"ACTUAL_TEMPERATURE",
                                                 "ACTUAL_HUMIDITY"}
                                /\ \/ metadata[p[2]] \in {"c", "None"}
                                   \/ p[1] = 1}
                    IN /\ {<<d.channel, d.param>> : d \in mine} = pairs
                       /\ Cardinality(mine) = Cardinality(pairs)
                       /\ \A d \in mine :
                             /\ d.platform = "homematic"
                             /\ d.name =
                                   IF d.channel = 1
                                   THEN devices[key].NAME \o " " \o d.param
                                   ELSE devices[key].NAME \o " "
                                           \o ToString(d.channel) \o " "
                                           \o d.param
                       /\ (key = "MOT1" /\ platform.component = "sensor") =>
                             mine = {[platform |-> "homematic",
                                      address |-> "MOT1",
                                      name |-> "Hall MOTION",
                                      channel |-> 1, param |-> "MOTION"]}

\* C16: the Motion device and the weather sensor were notified: the sensor
\* request holds the one entry of the Motion device, and entries of both
\* channels of the weather sensor, "Roof 2 TEMPERATURE" among them
C16_Witness ==
    /\ notif.pc = "done"
    /\ notif.keys = {"MOT1", "WEA1"}
    /\ \E j \in 1..Len(notif.setups) :
          /\ notif.setups[j].component = "sensor"
          /\ [platform |-> "homematic", address |-> "MOT1",
              name |-> "Hall MOTION", channel |-> 1, param |-> "MOTION"]
                \in notif.setups[j].devices
          /\ [platform |-> "homematic", address |-> "WEA1",
              name |-> "Roof 2 TEMPERATURE", channel |-> 2,
              param |-> "TEMPERATURE"] \in notif.setups[j].devices
          /\ Cardinality(notif.setups[j].devices) = 4

\* C17: for a name, a channel >= 1 and a parameter, _create_ha_name returns
\* name for channel 1 without parameter, "name channel" for a channel above
\* 1 without parameter, "name param" for channel 1 with a parameter, and
\* "name channel param" for a channel above 1 with a parameter.
C17_ComposeName ==
    (lastCall.op = "name" /\ lastCall.chan >= 1) =>
        /\ lastCall.result # "None"
        /\ (lastCall.chan = 1 /\ lastCall.node = "None") =>
              lastCall.result = lastCall.name
        /\ (lastCall.chan > 1 /\ lastCall.node = "None") =>
              lastCall.result =
                 lastCall.name \o " " \o ToString(lastCall.chan)
        /\ (lastCall.chan = 1 /\ lastCall.node # "None") =>
              lastCall.result = lastCall.name \o " " \o lastCall.node
        /\ (lastCall.chan > 1 /\ lastCall.node # "None") =>
              lastCall.result =
                 lastCall.name \o " " \o ToString(lastCall.chan)
                    \o " " \o lastCall.node

\* C17: the name of ("Plug", 2, "POWER") is "Plug 2 POWER"
C17_Witness ==
    /\ lastCall.op = "name"
    /\ lastCall.name = "Plug"
    /\ lastCall.chan = 2
    /\ lastCall.node = "POWER"
    /\ lastCall.result = "Plug 2 POWER"

\* C18: for a pushed event "address:channel" of a known device, the handler
\* fires exactly one homematic.keypress event if the attribute is an event
\* node of the device and is a press event or SEQUENCE_OK, and none
\* otherwise; a press event carries the device's name, the attribute and
\* the channel, an impulse event the name and the channel only.
C18_KeypressEvents ==
    (/\ lastCall.op = "event"
     /\ Len(lastCall.device) = 3
     /\ lastCall.device[2] = ":"
     /\ lastCall.device[3] \in {"0", "1", "2", "3"}
     /\ lastCall.device[1] \in DOMAIN devices) =>
        LET hmdev == devices[lastCall.device[1]]
            declared == lastCall.node \in DOMAIN hmdev.EVENTNODE
            press == lastCall.node \in {"PRESS_SHORT", "PRESS_LONG",
                                        "PRESS_CONT", "PRESS_LONG_RELEASE"}
            impulse == lastCall.node = "SEQUENCE_OK"
        IN /\ lastCall.raised = ""
           /\ Len(lastCall.fired) =
                 IF declared /\ (press \/ impulse) THEN 1 ELSE 0
           /\ (declared /\ press) =>
                 /\ lastCall.fired[1].type = "homematic.keypress"
                 /\ lastCall.fired[1].keys = {"name", "param", "channel"}
                 /\ lastCall.fired[1].name = hmdev.NAME
                 /\ lastCall.fired[1].param = lastCall.node
                 /\ ToString(lastCall.fired[1].channel) = lastCall.device[3]
           /\ (declared /\ impulse) =>
                 /\ lastCall.fired[1].type = "homematic.keypress"
                 /\ lastCall.fired[1].keys = {"name", "channel"}
                 /\ lastCall.fired[1].name = hmdev.NAME
                 /\ ToString(lastCall.fired[1].channel) = lastCall.device[3]

\* C18: SEQUENCE_OK of "KEY1:2" has fired one event, with name and channel
C18_Witness ==
    /\ lastCall.op = "event"
    /\ lastCall.device = <<"KEY1", ":", "2">>
    /\ lastCall.node = "SEQUENCE_OK"
    /\ Len(lastCall.fired) = 1
    /\ lastCall.fired[1].keys = {"name", "channel"}
    /\ lastCall.fired[1].channel = 2

\* C19: an event whose device string has no colon or a channel that is not
\* a number, or whose address or attribute is unknown, is dropped: the
\* handler fires nothing and returns without raising.
C19_RouterNeverRaises ==
    (/\ lastCall.op = "event"
     /\ \/ \A k \in 1..Len(lastCall.device) : lastCall.device[k] # ":"
        \/ Len(lastCall.device) < 3
        \/ lastCall.device[3] \notin {"0", "1", "2", "3"}
        \/ lastCall.device[1] \notin DOMAIN devices
        \/ lastCall.node \notin
              DOMAIN devices[lastCall.device[1]].EVENTNODE) =>
        /\ lastCall.fired = <<>>
        /\ lastCall.raised = ""

\* C20: the virtualkey service makes exactly one actionNodeData(param, 1,
\* channel) call if the address is a known device, the param one of its
\* action nodes and the channel within 1..ELEMENT; otherwise it makes no
\* call and logs an error; it raises nothing.
C20_VirtualkeyCalls ==
    lastCall.op = "virtualkey" =>
        /\ lastCall.raised = ""
        /\ IF /\ lastCall.addr \in DOMAIN devices
              /\ lastCall.node \in DOMAIN devices[lastCall.addr].ACTIONNODE
              /\ lastCall.chan \in 1..devices[lastCall.addr].ELEMENT
           THEN /\ lastCall.calls = << [param |-> lastCall.node, value |-> 1,
                                        channel |-> lastCall.chan] >>
                /\ lastCall.errors = 0
           ELSE /\ lastCall.calls = <<>>
                /\ lastCall.errors = 1

\* C23: a newDevices notification with an address that is not a known
\* device is handled without error: the address gets no event callback and
\* no entry, and load_platform is still called for the entries of the
\* notification's known devices.
C23_UnknownAddressSkipped ==
    (/\ notif.pc \in {"done", "raised"}
     /\ \E key \in notif.keys : key \notin DOMAIN devices) =>
        /\ notif.raised = ""
        /\ DOMAIN notif.subs \subseteq DOMAIN devices
        /\ \A i \in 1..Len(DiscoveryOrder) :
              LET entries ==
                      UNION {DeviceEntries(DiscoveryOrder[i].type, key) :
                                key \in notif.keys \cap DOMAIN devices}
              IN entries # {} =>
                    \E j \in 1..Len(notif.setups) :
                       /\ notif.setups[j].component =
                             DiscoveryOrder[i].component
                       /\ notif.setups[j].devices = entries

(***************************************************************************)
(* Properties of the threads                                               *)
(***************************************************************************)

\* C25: when a hm_set call and a variable pull have run one across the
\* other, with no other writer of the hub's variables, then once both have
\* completed the variable's local value equals the value on the hub.
C25_SetPullConsistent ==
    (/\ pull.done /\ pull.pc = "idle"
     /\ setter.done /\ setter.pc = "idle") =>
        PyEq(varState[setter.name], sysvars[setter.name])

\* C26: when the device changes a cached node's value while link_homematic
\* runs, and every change is pushed to the callbacks set at that moment,
\* then after the link has completed and the events have been handled the
\* cache entry equals the device's value.
C26_NoLostChange ==
    (connected /\ linkpc = "idle") =>
        \A n \in DOMAIN data \cap DOMAIN remote : PyEq(data[n], remote[n])
====
